---------------------------- MODULE Spec2Model ----------------------------
(***************************************************************************)
(* A model of growing_tube_model_estimation:                               *)
(*   growing_tube/_growting_tube_estimation.py  gen_knots,                 *)
(*                                              estimate_gt_e_and_r0,      *)
(*                                              fit_bspline_curve          *)
(*   growing_tube/_growing_tube_model.py        growing_tube_model         *)
(*   io/_mv3d.py                                _read_mv3d_as_growth_...   *)
(*                                                                         *)
(* Real numbers are exact rationals <<n, d>> in lowest terms with d >= 0.  *)
(* d = 0 stands for the non-finite results numpy produces when it divides  *)
(* by zero: <<1, 0>> is inf, <<-1, 0>> is -inf and <<0, 0>> is nan.        *)
(* Rounding and signed zeros are not modelled.                             *)
(***************************************************************************)
EXTENDS Integers, Sequences, FiniteSets, TLC

VARIABLES
    \* gen_knots: position, arguments, returned knot vector
    kn_pc, kn_args, kn_result,
    \* growing_tube_model: position, arguments, returned UMat
    gt_pc, gt_args, gt_result,
    \* fit_bspline_curve: position, arguments (references to the caller's
    \* arrays, k, revised_ratio, tol), the arrays by object, the locals,
    \* the returned pair
    fit_pc, fit_args, heap,
    arclength_parameters_updated, knots, b,
    arclength, arclength_old, arclength_ratio, arclength_revised_ratio,
    fit_result,
    \* history: loop bodies completed, the caller's arrays at call time,
    \* the arclength parameters before the last completed loop body
    fit_iter, at_call, prev_parameters,
    \* _read_mv3d_as_growth_trajectory: position, arguments (the rows of the
    \* data frame, adjust_direction_flag), the local e, the returned triple
    rd_pc, rd_args, rd_e, rd_result

varsRead == <<rd_pc, rd_args, rd_e, rd_result>>

varsFit ==
    <<fit_pc, fit_args, heap, arclength_parameters_updated, knots, b,
      arclength, arclength_old, arclength_ratio, arclength_revised_ratio,
      fit_result, fit_iter, at_call, prev_parameters>>

vars ==
    <<kn_pc, kn_args, kn_result, gt_pc, gt_args, gt_result, varsFit, varsRead>>

varsKnots == <<kn_pc, kn_args, kn_result>>

varsTube == <<gt_pc, gt_args, gt_result>>

-----------------------------------------------------------------------------
(* Bounds of the model *)

\* start and end of gen_knots range over 0..MaxEnd
MaxEnd == 3
\* num of gen_knots ranges over 0..MaxNum
MaxNum == 4
\* rep of gen_knots ranges over 0..MaxRep
MaxRep == 3
\* E of growing_tube_model ranges over -1..MaxGrowth
MaxGrowth == 2
\* C and T of growing_tube_model range over 0..MaxCurv and -MaxCurv..MaxCurv
MaxCurv == 4
\* r0 of growing_tube_model ranges over 1..MaxRadius
MaxRadius == 2
\* the growth stage s is k*pi/2 or k*ln(2) for k in 0..MaxStage
MaxStage == 2
\* arclength parameters and integrated arclengths range over 0..MaxArclength
MaxArclength == 3
\* loop bodies of fit_bspline_curve the model follows
MaxIter == 3
\* a trajectory read from a file has 1..MaxPoints points
MaxPoints == 3
\* the thickness of a point ranges over 1..MaxThickness
MaxThickness == 3

-----------------------------------------------------------------------------
(* Constants of the program *)

\* the number of samples of the regenerated knot vector
NumKnots == 200

-----------------------------------------------------------------------------
(* Numbers *)

AbsInt(n) == IF n < 0 THEN -n ELSE n

SgnInt(n) == IF n < 0 THEN -1 ELSE IF n > 0 THEN 1 ELSE 0

RECURSIVE GCD(_, _)
GCD(m, n) == IF n = 0 THEN m ELSE GCD(n, m % n)

\* the number n/d in lowest terms; n/0 is inf, -inf or nan by the sign of n
Q(n, d) ==
    IF d = 0 THEN <<SgnInt(n), 0>>
    ELSE LET g == GCD(AbsInt(n), AbsInt(d))
             s == IF d < 0 THEN -1 ELSE 1
         IN  <<(s * n) \div g, (s * d) \div g>>

Int2Q(n) == <<n, 1>>

NaN == <<0, 0>>

IsNaN(x) == x = NaN

IsInf(x) == x[2] = 0 /\ x[1] # 0

IsFinite(x) == x[2] # 0

Neg(x) == <<-x[1], x[2]>>

\* x + y over the least common denominator; inf + inf is inf, inf - inf is nan
Add(x, y) ==
    IF IsInf(x) /\ x = y THEN x
    ELSE IF x[2] = 0 \/ y[2] = 0 THEN Q(x[1] * y[2] + y[1] * x[2], 0)
    ELSE LET g == GCD(x[2], y[2])
         IN  Q(x[1] * (y[2] \div g) + y[1] * (x[2] \div g), (x[2] \div g) * y[2])

Sub(x, y) == Add(x, Neg(y))

\* x * y, cancelling common factors first; 0 * inf is nan
Mul(x, y) ==
    IF x[2] = 0 \/ y[2] = 0 \/ x[1] = 0 \/ y[1] = 0 THEN Q(x[1] * y[1], x[2] * y[2])
    ELSE LET g1 == GCD(AbsInt(x[1]), y[2])
             g2 == GCD(AbsInt(y[1]), x[2])
         IN  Q((x[1] \div g1) * (y[1] \div g2), (x[2] \div g2) * (y[2] \div g1))

\* 1/x; 1/0 is inf, 1/inf is 0, 1/nan is nan
Inv(x) == IF x[1] < 0 THEN <<-x[2], -x[1]>> ELSE <<x[2], x[1]>>

Div(x, y) == Mul(x, Inv(y))

AbsQ(x) == <<AbsInt(x[1]), x[2]>>

\* x < y; false when either is nan, as every IEEE comparison with nan is
Lt(x, y) ==
    /\ ~IsNaN(x) /\ ~IsNaN(y)
    /\ IF IsFinite(x) /\ IsFinite(y) THEN x[1] * y[2] < y[1] * x[2]
       ELSE IF IsFinite(x) THEN y[1] > 0
       ELSE IF IsFinite(y) THEN x[1] < 0
       ELSE x[1] < y[1]

Gt(x, y) == Lt(y, x)

Le(x, y) == ~IsNaN(x) /\ ~IsNaN(y) /\ ~Lt(y, x)

Last(s) == s[Len(s)]

NonDecreasing(s) == \A i \in 1..(Len(s) - 1) : Le(s[i], s[i + 1])

-----------------------------------------------------------------------------
(* gen_knots *)

\* np.repeat(v, count) for a scalar v and count >= 0
np_repeat(v, count) == [i \in 1..count |-> v]

\* np.linspace(start, stop, num) for num >= 0: num samples start + i*step,
\* the last one set to stop when num > 1
np_linspace(start, stop, num) ==
    LET delta == Sub(stop, start)
        step  == Div(delta, Int2Q(num - 1))
    IN  [i \in 1..num |->
            IF num > 1 /\ i = num THEN stop
            ELSE IF num - 1 > 0 THEN Add(Mul(Int2Q(i - 1), step), start)
            ELSE Add(Mul(Int2Q(i - 1), delta), start)]

\* np.repeat raises ValueError on a negative count, np.linspace on a
\* negative number of samples
gen_knots_raises(start, end, num, rep) == rep - 1 < 0 \/ num < 0

\* gen_knots repeating the boundary values rep times instead of rep - 1
gen_knots_rep(start, end, num, rep) ==
    (np_repeat(start, rep) \o np_linspace(start, end, num)) \o np_repeat(end, rep)

gen_knots(start, end, num, rep) ==
    LET start_rep == np_repeat(start, rep - 1)
        samples   == np_linspace(start, end, num)
        end_rep   == np_repeat(end, rep - 1)
    IN  (start_rep \o samples) \o end_rep

KnotArgs ==
    [start : {Int2Q(n) : n \in 0..MaxEnd},
     end   : {Int2Q(n) : n \in 0..MaxEnd},
     num   : 0..MaxNum,
     rep   : 0..MaxRep]

IdleKnots ==
    /\ kn_pc = "idle"
    /\ kn_args = [start |-> Int2Q(0), end |-> Int2Q(0), num |-> 0, rep |-> 0]
    /\ kn_result = <<>>

-----------------------------------------------------------------------------
(* growing_tube_model *)

\* np.sqrt on an integer that is a perfect square
np_sqrt(n) == Int2Q(CHOOSE d \in 0..n : d * d = n)

IsSquare(n) == \E d \in 0..n : d * d = n

RECURSIVE Pow2(_)
Pow2(m) == IF m = 0 THEN 1 ELSE 2 * Pow2(m - 1)

\* The growth stage s is [unit, k]: k*pi/2 ("halfpi") or k*ln(2) ("ln2").
\* sin, cos and exp are evaluated where their value is rational:
\*   sin(x*s), cos(x*s)  when x*s is a whole number of quarter turns,
\*   exp(x*s)            when x*s is a whole multiple of ln(2).
QuarterSin == <<0, 1, 0, -1>>

QuarterCos == <<1, 0, -1, 0>>

Quarters(x, s) == IF x[1] = 0 \/ s.k = 0 THEN 0 ELSE (x[1] * s.k) % 4

np_sin(x, s) == Int2Q(QuarterSin[Quarters(x, s) + 1])

np_cos(x, s) == Int2Q(QuarterCos[Quarters(x, s) + 1])

np_exp(x, s) ==
    LET m == x[1] * s.k
    IN  IF m >= 0 THEN <<Pow2(m), 1>> ELSE <<1, Pow2(-m)>>

\* the angle phi is j*pi/2
Angle(j) == [unit |-> "halfpi", k |-> j]

One == Int2Q(1)

Sq(x) == Mul(x, x)

Cube(x) == Mul(x, Mul(x, x))

VecAdd(u, v) == [i \in 1..3 |-> Add(u[i], v[i])]

\* R0 @ v
MatVec(M, v) ==
    [i \in 1..3 |-> Add(Add(Mul(M[i][1], v[1]), Mul(M[i][2], v[2])), Mul(M[i][3], v[3]))]

generating_spiral_const(s, E, C, T, r0) ==
    LET E_g == E
        C_g == C
        T_g == T
        D == np_sqrt(C_g[1] * C_g[1] + T_g[1] * T_g[1])
        ED3E2pD2 == Mul(Mul(E_g, Cube(D)), Add(Sq(E_g), Sq(D)))
        expEs == np_exp(E_g, s)
        sinDs == np_sin(D, s)
        cosDs == np_cos(D, s)
        P == Div(Mul(Mul(r0, D),
                     Sub(Mul(Add(Add(Add(Mul(Sq(D), Sq(T_g)),
                                         Mul(Sq(E_g), Sq(T_g))),
                                     Mul(Mul(Sq(C_g), Sq(E_g)), cosDs)),
                                 Mul(Mul(Mul(E_g, D), Sq(C_g)), sinDs)),
                             expEs),
                         Mul(Sq(D), Add(Sq(E_g), Sq(T_g))))),
                 ED3E2pD2)
        QQ == Div(Mul(Mul(Mul(Mul(r0, C_g), D), E_g),
                      Add(Mul(Mul(Neg(expEs), Add(Sq(C_g), Sq(T_g))), cosDs),
                          Mul(D, Add(D, Mul(Mul(expEs, E_g), sinDs))))),
                  ED3E2pD2)
        R == Div(Mul(Mul(Mul(Mul(r0, C_g), T_g), D),
                     Sub(Mul(Sub(Sub(Add(Sq(E_g), Sq(D)), Mul(Sq(E_g), cosDs)),
                                 Mul(Mul(E_g, D), sinDs)),
                             expEs),
                         Sq(D))),
                 ED3E2pD2)
    IN  <<P, QQ, R>>

generating_curve_const(s, phi, E, C, T, r0) ==
    LET D == np_sqrt(C[1] * C[1] + T[1] * T[1])
        cosphi == np_cos(One, phi)
        sinphi == np_sin(One, phi)
        X == Div(Neg(Mul(Mul(Mul(C, np_exp(E, s)), r0),
                         Add(Mul(Mul(Sq(D), cosphi), np_sin(D, s)),
                             Mul(Mul(Mul(T, D), Add(Int2Q(-1), np_cos(D, s))), sinphi)))),
                 Cube(D))
        Y == Mul(Mul(np_exp(E, s), r0),
                 Sub(Mul(np_cos(D, s), cosphi),
                     Div(Mul(Mul(T, np_sin(D, s)), sinphi), D)))
        Z == Mul(Mul(np_exp(E, s), r0),
                 Add(Div(Mul(Mul(T, cosphi), np_sin(D, s)), D),
                     Div(Mul(Add(Sq(C), Mul(Sq(T), np_cos(D, s))), sinphi), Sq(D))))
    IN  <<X, Y, Z>>

\* _growing_tube_model_const adding the generating curve twice and leaving
\* the generating spiral out
growing_tube_model_const_curve_only(s, phi, E, C, T, r0, p0, R0) ==
    LET QMat == generating_curve_const(s, phi, E, C, T, r0)
        UMat == VecAdd(QMat, QMat)
    IN  VecAdd(p0, MatVec(R0, UMat))

growing_tube_model_const(s, phi, E, C, T, r0, p0, R0) ==
    LET PMat == generating_spiral_const(s, E, C, T, r0)
        QMat == generating_curve_const(s, phi, E, C, T, r0)
        UMat == VecAdd(PMat, QMat)
    IN  VecAdd(p0, MatVec(R0, UMat))

\* isinstance(x, numbers.Real)
IsReal(x) == x.kind = "real"

\* the test with "or" in place of "and"
AnyReal(E, C, T) == IsReal(E) \/ IsReal(C) \/ IsReal(T)

\* the test of growing_tube_model's if statement
AllReal(E, C, T) == IsReal(E) /\ IsReal(C) /\ IsReal(T)

Real(n) == [kind |-> "real", v |-> Int2Q(n)]

NonReal == {[kind |-> "array", v |-> NaN], [kind |-> "callable", v |-> NaN]}

Stages ==
    {[unit |-> u, k |-> k] : u \in {"halfpi", "ln2"}, k \in 0..MaxStage}

\* the arguments at which sin, cos and exp are rational
Representable(a) ==
    (\A x \in {a.E, a.C, a.T} : x.kind = "real") =>
        /\ IsSquare(a.C.v[1] * a.C.v[1] + a.T.v[1] * a.T.v[1])
        /\ \/ a.s.k = 0
           \/ a.s.unit = "halfpi" /\ a.E.v[1] = 0
           \/ a.s.unit = "ln2" /\ a.C.v[1] = 0 /\ a.T.v[1] = 0

Identity3 ==
    <<<<Int2Q(1), Int2Q(0), Int2Q(0)>>,
      <<Int2Q(0), Int2Q(1), Int2Q(0)>>,
      <<Int2Q(0), Int2Q(0), Int2Q(1)>>>>

RotZ ==
    <<<<Int2Q(0), Int2Q(-1), Int2Q(0)>>,
      <<Int2Q(1), Int2Q(0), Int2Q(0)>>,
      <<Int2Q(0), Int2Q(0), Int2Q(1)>>>>

Zeros3 == <<Int2Q(0), Int2Q(0), Int2Q(0)>>

TubeArgs ==
    {a \in [s   : Stages,
            phi : {Angle(j) : j \in 0..3},
            E   : {Real(n) : n \in (-1)..MaxGrowth} \cup NonReal,
            C   : {Real(n) : n \in 0..MaxCurv} \cup NonReal,
            T   : {Real(n) : n \in (-MaxCurv)..MaxCurv} \cup NonReal,
            r0  : {Int2Q(n) : n \in 1..MaxRadius},
            p0  : {Zeros3, <<Int2Q(1), Int2Q(2), Int2Q(3)>>},
            R0  : {Identity3, RotZ}] : Representable(a)}

IdleTube ==
    /\ gt_pc = "idle"
    /\ gt_args = <<>>
    /\ gt_result = <<>>

-----------------------------------------------------------------------------
(* fit_bspline_curve *)

\* The arrays live in heap, by object: the three the caller owns and those
\* the call allocates, named by the line that allocates them.  An object
\* that is not allocated holds <<>>.
CallerObjects == {"arclength_parameters", "coords", "initial_knots"}

LocalObjects == {"copy77", "copy78", "scaled99", "knots103"}

\* an array no name refers to any more is released; the caller's arrays stay
Release(h, o) == IF o \in CallerObjects THEN h ELSE [h EXCEPT ![o] = <<>>]

\* x.copy(): a new array new holding the values of src
np_copy(h, src, new) == [h EXCEPT ![new] = h[src]]

\* the rescaled values stored into the caller's arclength_parameters as well
ScaleParametersIntoArgument(h, ref, factor) ==
    LET scaled == [i \in 1..Len(h[ref]) |-> Mul(factor, h[ref][i])]
    IN  [Release(h, ref) EXCEPT !["scaled99"] = scaled,
                                !["arclength_parameters"] = scaled]

\* factor * x: a new array, to which the name is then bound
ScaleParameters(h, ref, factor) ==
    LET scaled == [i \in 1..Len(h[ref]) |-> Mul(factor, h[ref][i])]
    IN  [Release(h, ref) EXCEPT !["scaled99"] = scaled]

\* knots = gen_knots(...): a new array, to which the name is then bound
StoreKnots(h, ref, new_knots) == [Release(h, ref) EXCEPT !["knots103"] = new_knots]

\* make_lsq_spline(x, y, k=k, t=t): the spline, by what it was fitted on
make_lsq_spline(x, y, k, t) == [bound |-> TRUE, x |-> x, y |-> y, k |-> k, t |-> t]

Unbound == [bound |-> FALSE, x |-> <<>>, y |-> <<>>, k |-> 0, t |-> <<>>]

\* the test with >= in place of >
LoopTestInclusive(ratio, tol) == ~Lt(AbsQ(Sub(One, ratio)), tol)

\* the test of the while statement
LoopTest(ratio, tol) == Gt(AbsQ(Sub(One, ratio)), tol)

\* the correction applied in full: arclength_revised_ratio = arclength_ratio
RatiosUndamped(parameters, L, revised_ratio) ==
    LET old == Last(parameters)
    IN  [old |-> old, ratio |-> Div(L, old), revised |-> Div(L, old)]

\* lines 93-97: arclength_old, arclength_ratio and arclength_revised_ratio
\* of a loop body in which the integrated arclength of the fitted spline is L
Ratios(parameters, L, revised_ratio) ==
    LET old == Last(parameters)
    IN  [old     |-> old,
         ratio   |-> Div(L, old),
         revised |-> Div(Add(Mul(Sub(L, old), revised_ratio), old), old)]

\* lines 99-108: the arrays after the rescaling and the new knot vector
Rescale(h, apu, kn, revised, k) ==
    LET h1 == ScaleParameters(h, apu, revised)
    IN  StoreKnots(h1, kn,
                   gen_knots(h1["scaled99"][1], Last(h1["scaled99"]), NumKnots, k + 1))

\* increasing arclength parameters of three points, starting at 0
\* increasing arclength parameters of three points, starting at 0
ParameterArrays ==
    {p \in {<<Int2Q(0), Int2Q(m), Int2Q(n)>> : m, n \in 1..MaxArclength} :
        Lt(p[2], p[3])}

\* revised_ratio: the default 0.9, the full correction and none
RevisedRatios == {Q(9, 10), Int2Q(1), Int2Q(0)}

\* tol: negative, zero, one half, one
Tolerances == {Int2Q(-1), Int2Q(0), Q(1, 2), Int2Q(1)}

\* k: linear and the default, cubic
Degrees == {1, 3}

\* the trajectory the spline is fitted to
Trajectory == <<<<0, 0, 0>>, <<3, 0, 0>>, <<3, 4, 0>>>>

\* the integrated arclength of a fitted spline: quad's result is not
\* modelled, it is any of these or the last arclength parameter itself
Arclengths(last) == {Int2Q(n) : n \in 1..MaxArclength} \cup {last}

EmptyHeap == [o \in CallerObjects \cup LocalObjects |-> <<>>]

IdleFit ==
    /\ fit_pc = "idle"
    /\ fit_args = <<>>
    /\ heap = EmptyHeap
    /\ arclength_parameters_updated = "none"
    /\ knots = "none"
    /\ b = Unbound
    /\ arclength = NaN
    /\ arclength_old = NaN
    /\ arclength_ratio = NaN
    /\ arclength_revised_ratio = NaN
    /\ fit_result = <<>>
    /\ fit_iter = 0
    /\ at_call = EmptyHeap
    /\ prev_parameters = <<>>

-----------------------------------------------------------------------------
(* _read_mv3d_as_growth_trajectory *)

\* np.linalg.norm(u - v) for points whose distance is a whole number
Distance(u, v) ==
    LET sq == (u[1] - v[1]) * (u[1] - v[1]) + (u[2] - v[2]) * (u[2] - v[2])
              + (u[3] - v[3]) * (u[3] - v[3])
    IN  CHOOSE d \in 0..sq : d * d = sq

\* np.append(0, np.linalg.norm(coords[0:-1] - coords[1:], axis=1))
ChordLengths(coords) ==
    [i \in 1..Len(coords) |->
        IF i = 1 THEN 0 ELSE Distance(coords[i - 1], coords[i])]

RECURSIVE SumTo(_, _)
SumTo(a, i) == IF i = 0 THEN 0 ELSE a[i] + SumTo(a, i - 1)

np_cumsum(a) == [i \in 1..Len(a) |-> SumTo(a, i)]

Dot(l, t) == SumTo([i \in 1..Len(l) |-> l[i] * t[i]], Len(l))

\* n * sum(l*t) - sum(l) * sum(t): the sign of the least-squares slope
Covariance(l, t) == Len(l) * Dot(l, t) - SumTo(l, Len(l)) * SumTo(t, Len(t))

\* estimate_gt_e_and_r0: the possible (e, r0).  curve_fit on the model
\* e*l + r0 is the least-squares line; when all l are equal the slope is not
\* determined by the data and e is whatever the solver leaves it at.
estimate_gt_e_and_r0(l, t) ==
    LET n   == Len(l)
        den == Covariance(l, l)
    IN  IF den # 0
        THEN LET e == Q(Covariance(l, t), den)
             IN  {<<e, Div(Sub(Int2Q(SumTo(t, n)), Mul(e, Int2Q(SumTo(l, n)))), Int2Q(n))>>}
        ELSE {<<Int2Q(e), Sub(Q(SumTo(t, n), n), Mul(Int2Q(e), Int2Q(l[1])))>> :
                 e \in {-1, 0, 1}}

\* x[::-1]
Reversed(x) == [i \in 1..Len(x) |-> x[Len(x) + 1 - i]]

\* lines 69-72 with line 70 left out: the thicknesses keep their order
AdjustDirectionKeepThickness(coords, thicknesses, arclength_parameters) ==
    LET r == Reversed(arclength_parameters)
    IN  <<Reversed(coords), thicknesses, [i \in 1..Len(r) |-> -(r[i] - r[1])]>>

\* lines 69-72: the three arrays reversed, the arclength counted from the
\* new first point
AdjustDirection(coords, thicknesses, arclength_parameters) ==
    LET r == Reversed(arclength_parameters)
    IN  <<Reversed(coords), Reversed(thicknesses),
          [i \in 1..Len(r) |-> -(r[i] - r[1])]>>

\* df_mv3d[["x", "y", "z"]]
Coords(rows) == [i \in 1..Len(rows) |-> <<rows[i].x, rows[i].y, rows[i].z>>]

\* df_mv3d["d"]
Thicknesses(rows) == [i \in 1..Len(rows) |-> rows[i].d]

\* points at whole-number distances from each other
Points == {<<0, 0, 0>>, <<3, 0, 0>>, <<3, 4, 0>>, <<0, 4, 0>>}

Rows ==
    {[x |-> q[1], y |-> q[2], z |-> q[3], d |-> d] :
        q \in Points, d \in 1..MaxThickness}

DataFrames == UNION {[1..n -> Rows] : n \in 1..MaxPoints}

IdleRead ==
    /\ rd_pc = "idle"
    /\ rd_args = <<>>
    /\ rd_e = NaN
    /\ rd_result = <<>>

-----------------------------------------------------------------------------
(* Specifications of gen_knots and growing_tube_model *)

InitKnots ==
    /\ kn_pc = "call"
    /\ kn_args \in KnotArgs
    /\ kn_result = <<>>
    /\ IdleTube
    /\ IdleFit
    /\ IdleRead

GenKnotsReturn ==
    /\ kn_pc = "call"
    /\ ~gen_knots_raises(kn_args.start, kn_args.end, kn_args.num, kn_args.rep)
    /\ kn_result' = gen_knots(kn_args.start, kn_args.end, kn_args.num, kn_args.rep)
    /\ kn_pc' = "returned"
    /\ UNCHANGED <<kn_args, varsTube, varsFit, varsRead>>

GenKnotsRaise ==
    /\ kn_pc = "call"
    /\ gen_knots_raises(kn_args.start, kn_args.end, kn_args.num, kn_args.rep)
    /\ kn_pc' = "ValueError"
    /\ UNCHANGED <<kn_args, kn_result, varsTube, varsFit, varsRead>>

NextKnots == GenKnotsReturn \/ GenKnotsRaise

SpecKnots == InitKnots /\ [][NextKnots]_vars

InitTube ==
    /\ gt_pc = "call"
    /\ gt_args \in TubeArgs
    /\ gt_result = <<>>
    /\ IdleKnots
    /\ IdleFit
    /\ IdleRead

\* growing_tube_model, all three of E, C, T real: the constant-parameter path
TubeConst ==
    /\ gt_pc = "call"
    /\ AllReal(gt_args.E, gt_args.C, gt_args.T)
    /\ gt_result' = growing_tube_model_const(gt_args.s, gt_args.phi, gt_args.E.v,
                        gt_args.C.v, gt_args.T.v, gt_args.r0, gt_args.p0, gt_args.R0)
    /\ gt_pc' = "returned"
    /\ UNCHANGED <<gt_args, varsKnots, varsFit, varsRead>>

\* growing_tube_model, otherwise: raise NotImplementedError
TubeNotImplemented ==
    /\ gt_pc = "call"
    /\ ~AllReal(gt_args.E, gt_args.C, gt_args.T)
    /\ gt_pc' = "NotImplementedError"
    /\ UNCHANGED <<gt_args, gt_result, varsKnots, varsFit, varsRead>>

NextTube == TubeConst \/ TubeNotImplemented

SpecTube == InitTube /\ [][NextTube]_vars

-----------------------------------------------------------------------------
(* Specification of fit_bspline_curve *)

InitFit ==
    /\ fit_pc = "call"
    /\ \E p \in ParameterArrays, k \in Degrees :
          /\ heap = [EmptyHeap EXCEPT !["arclength_parameters"] = p,
                                      !["coords"] = Trajectory,
                                      !["initial_knots"] = gen_knots(p[1], Last(p), 2, k + 1)]
          /\ \E rr \in RevisedRatios, tol \in Tolerances :
                fit_args = [arclength_parameters |-> "arclength_parameters",
                            coords |-> "coords",
                            initial_knots |-> "initial_knots",
                            k |-> k, revised_ratio |-> rr, tol |-> tol]
    /\ arclength_parameters_updated = "none"
    /\ knots = "none"
    /\ b = Unbound
    /\ arclength = NaN
    /\ arclength_old = NaN
    /\ arclength_ratio = NaN
    /\ arclength_revised_ratio = NaN
    /\ fit_result = <<>>
    /\ fit_iter = 0
    /\ at_call = heap
    /\ prev_parameters = <<>>
    /\ IdleKnots
    /\ IdleTube
    /\ IdleRead

\* lines 77-81: the two copies, arclength_ratio = 0, the first loop test
FitEnter ==
    /\ fit_pc = "call"
    /\ heap' = np_copy(np_copy(heap, fit_args.arclength_parameters, "copy77"),
                       fit_args.initial_knots, "copy78")
    /\ arclength_parameters_updated' = "copy77"
    /\ knots' = "copy78"
    /\ arclength_ratio' = Int2Q(0)
    /\ fit_pc' = IF LoopTest(Int2Q(0), fit_args.tol) THEN "body" ELSE "return"
    /\ UNCHANGED <<fit_args, b, arclength, arclength_old, arclength_revised_ratio,
                   fit_result, fit_iter, at_call, prev_parameters,
                   varsKnots, varsTube, varsRead>>

\* lines 82-108 and the next loop test: one loop body
FitIterate ==
    /\ fit_pc = "body"
    /\ fit_iter < MaxIter
    /\ \E L \in Arclengths(Last(heap[arclength_parameters_updated])) :
          LET r == Ratios(heap[arclength_parameters_updated], L, fit_args.revised_ratio)
          IN  /\ arclength' = L
              /\ arclength_old' = r.old
              /\ arclength_ratio' = r.ratio
              /\ arclength_revised_ratio' = r.revised
              /\ heap' = Rescale(heap, arclength_parameters_updated, knots,
                                 r.revised, fit_args.k)
              /\ fit_pc' = IF LoopTest(r.ratio, fit_args.tol) THEN "body" ELSE "return"
    /\ b' = make_lsq_spline(heap[arclength_parameters_updated],
                            heap[fit_args.coords], fit_args.k, heap[knots])
    /\ arclength_parameters_updated' = "scaled99"
    /\ knots' = "knots103"
    /\ fit_iter' = fit_iter + 1
    /\ prev_parameters' = heap[arclength_parameters_updated]
    /\ UNCHANGED <<fit_args, fit_result, at_call, varsKnots, varsTube, varsRead>>

\* lines 83-91: make_lsq_spline or quad raises
FitRaise ==
    /\ fit_pc = "body"
    /\ fit_pc' = "raised"
    /\ UNCHANGED <<fit_args, heap, arclength_parameters_updated, knots, b,
                   arclength, arclength_old, arclength_ratio,
                   arclength_revised_ratio, fit_result, fit_iter, at_call,
                   prev_parameters, varsKnots, varsTube, varsRead>>

\* line 110: return b, arclength_parameters_updated
FitReturn ==
    /\ fit_pc = "return"
    /\ b.bound
    /\ fit_result' = <<b, heap[arclength_parameters_updated]>>
    /\ fit_pc' = "returned"
    /\ UNCHANGED <<fit_args, heap, arclength_parameters_updated, knots, b,
                   arclength, arclength_old, arclength_ratio,
                   arclength_revised_ratio, fit_iter, at_call,
                   prev_parameters, varsKnots, varsTube, varsRead>>

\* line 110 when no loop body ran: b is not bound, UnboundLocalError
FitReturnUnbound ==
    /\ fit_pc = "return"
    /\ ~b.bound
    /\ fit_pc' = "UnboundLocalError"
    /\ UNCHANGED <<fit_args, heap, arclength_parameters_updated, knots, b,
                   arclength, arclength_old, arclength_ratio,
                   arclength_revised_ratio, fit_result, fit_iter, at_call,
                   prev_parameters, varsKnots, varsTube, varsRead>>

NextFit == FitEnter \/ FitIterate \/ FitRaise \/ FitReturn \/ FitReturnUnbound

SpecFit == InitFit /\ [][NextFit]_vars

-----------------------------------------------------------------------------
(* Specification of _read_mv3d_as_growth_trajectory *)

InitRead ==
    /\ rd_pc = "call"
    /\ rd_args \in [rows : DataFrames, adjust_direction_flag : BOOLEAN]
    /\ rd_e = NaN
    /\ rd_result = <<>>
    /\ IdleKnots
    /\ IdleTube
    /\ IdleFit

\* adjust_direction_flag false: lines 58-64 and 73
ReadAsIs ==
    /\ rd_pc = "call"
    /\ ~rd_args.adjust_direction_flag
    /\ rd_result' = <<Coords(rd_args.rows), Thicknesses(rd_args.rows),
                      np_cumsum(ChordLengths(Coords(rd_args.rows)))>>
    /\ rd_pc' = "returned"
    /\ UNCHANGED <<rd_args, rd_e, varsKnots, varsTube, varsFit>>

\* adjust_direction_flag true: lines 58-73
ReadAdjusted ==
    /\ rd_pc = "call"
    /\ rd_args.adjust_direction_flag
    /\ Len(rd_args.rows) >= 2
    /\ LET coords == Coords(rd_args.rows)
           thicknesses == Thicknesses(rd_args.rows)
           arclength_parameters == np_cumsum(ChordLengths(coords))
       IN  \E est \in estimate_gt_e_and_r0(arclength_parameters, thicknesses) :
              /\ rd_e' = est[1]
              /\ rd_result' =
                    IF Lt(est[1], Int2Q(0))
                    THEN AdjustDirection(coords, thicknesses, arclength_parameters)
                    ELSE <<coords, thicknesses, arclength_parameters>>
    /\ rd_pc' = "returned"
    /\ UNCHANGED <<rd_args, varsKnots, varsTube, varsFit>>

\* adjust_direction_flag true and one point: curve_fit raises TypeError,
\* two parameters cannot be fitted to one data point
ReadTooFewPoints ==
    /\ rd_pc = "call"
    /\ rd_args.adjust_direction_flag
    /\ Len(rd_args.rows) < 2
    /\ rd_pc' = "TypeError"
    /\ UNCHANGED <<rd_args, rd_e, rd_result, varsKnots, varsTube, varsFit>>

NextRead == ReadAsIs \/ ReadAdjusted \/ ReadTooFewPoints

SpecRead == InitRead /\ [][NextRead]_vars

-----------------------------------------------------------------------------
(* Properties of gen_knots *)

KnotsLengthAndEnds ==
    /\ Len(kn_result) = kn_args.num + 2 * (kn_args.rep - 1)
    /\ Len(kn_result) >= kn_args.rep
    /\ \A i \in 1..kn_args.rep : kn_result[i] = kn_args.start
    /\ \A i \in 1..kn_args.rep :
           kn_result[Len(kn_result) + 1 - i] = kn_args.end

NonIncreasing(s) == \A i \in 1..(Len(s) - 1) : Le(s[i + 1], s[i])

-----------------------------------------------------------------------------
(* Properties of growing_tube_model *)

ArgsReal == \A x \in {gt_args.E, gt_args.C, gt_args.T} : x.kind = "real"

\* D = sqrt(C^2 + T^2) # 0
DNonZero == gt_args.C.v # Int2Q(0) \/ gt_args.T.v # Int2Q(0)

AtStageZero == gt_pc = "returned" /\ gt_args.s.k = 0

\* the circle of radius r0 at angle phi in the plane x = 0
StartCircle ==
    <<Int2Q(0),
      Mul(gt_args.r0, np_cos(One, gt_args.phi)),
      Mul(gt_args.r0, np_sin(One, gt_args.phi))>>

\* C2 as stated: with constant E, C, T and D # 0, growing_tube_model at
\* s = 0 returns exactly p0, for every phi.
C2_StartsAtP0 ==
    (AtStageZero /\ DNonZero) => gt_result = gt_args.p0

\* C2 amended: with constant E, C, T and D # 0, at s = 0: when E # 0 the
\* generating spiral is the zero vector and growing_tube_model returns
\* p0 + R0 @ (0, r0*cos(phi), r0*sin(phi)), the point at angle phi of the
\* circle of radius r0 around p0; when E = 0 every coordinate returned is nan.
C2_StartsOnCircle ==
    (AtStageZero /\ DNonZero) =>
        IF gt_args.E.v # Int2Q(0)
        THEN /\ generating_spiral_const(gt_args.s, gt_args.E.v, gt_args.C.v,
                                        gt_args.T.v, gt_args.r0) = Zeros3
             /\ gt_result = VecAdd(gt_args.p0, MatVec(gt_args.R0, StartCircle))
        ELSE \A i \in 1..3 : IsNaN(gt_result[i])

C2_Witness ==
    /\ AtStageZero
    /\ gt_args.E.v = Int2Q(2)
    /\ gt_args.C.v = Int2Q(3)
    /\ gt_args.T.v = Int2Q(-4)
    /\ gt_args.phi.k = 1
    /\ gt_args.R0 = RotZ
    /\ gt_args.p0 # Zeros3
    /\ gt_result # gt_args.p0

\* C3: called with scalar C = 0 and T = 0, growing_tube_model ends in a
\* SingularGeometryError and never returns a coordinate array.
C3_SingularRaises ==
    (/\ gt_pc # "call"
     /\ ArgsReal
     /\ gt_args.C.v = Int2Q(0)
     /\ gt_args.T.v = Int2Q(0)) => gt_pc = "SingularGeometryError"

\* C4: growing_tube_model raises NotImplementedError, returning nothing,
\* whenever one of E, C, T is not a real scalar, and takes the
\* constant-parameter path exactly when all three are real scalars.
C4_NotImplemented ==
    gt_pc # "call" =>
        /\ ~ArgsReal => gt_pc = "NotImplementedError" /\ gt_result = <<>>
        /\ gt_pc = "returned" <=> ArgsReal

C4_Witness ==
    /\ gt_pc = "NotImplementedError"
    /\ gt_args.E.kind = "real"
    /\ gt_args.C.kind = "real"
    /\ gt_args.T.kind = "callable"

-----------------------------------------------------------------------------
(* Properties of fit_bspline_curve *)

CurrentParameters == heap[arclength_parameters_updated]

\* |1 - L/a| <= tol for the integrated arclength L and the last arclength
\* parameter a of the last completed loop body
Converged ==
    Le(AbsQ(Sub(One, Div(arclength, Last(prev_parameters)))), fit_args.tol)

\* C5: fit_bspline_curve always terminates: there is a maximum number of
\* loop bodies after which, the tolerance not being met, it stops with a
\* NonConvergenceError instead of running the body again.  Stated for a
\* positive tol and revised_ratio and for every maximum up to the number of
\* loop bodies the model follows.
C5_IterationCap ==
    (Lt(Int2Q(0), fit_args.tol) /\ Lt(Int2Q(0), fit_args.revised_ratio)) =>
        \E cap \in 1..MaxIter : (fit_iter >= cap => fit_pc # "body")

FirstFitExact == fit_iter = 1 /\ arclength = arclength_old

OneIterationUnchanged ==
    /\ fit_pc \in {"return", "returned"}
    /\ CurrentParameters = at_call["arclength_parameters"]
    /\ fit_pc = "returned" => fit_result[2] = at_call["arclength_parameters"]

\* C6 as stated: if the arclength of the spline fitted in the first loop
\* body equals the last input arclength parameter, the loop body runs exactly
\* once, for every tol and revised_ratio, and the arclength parameters are
\* returned unchanged in value.
C6_ExactOneIteration == FirstFitExact => OneIterationUnchanged

\* C6 amended: the same for every revised_ratio and every tol >= 0 (with
\* tol >= 1 no loop body runs at all, so the premise covers 0 <= tol < 1).
C6_ExactOneIterationTol ==
    (FirstFitExact /\ Le(Int2Q(0), fit_args.tol)) => OneIterationUnchanged

C6_Witness ==
    /\ FirstFitExact
    /\ fit_pc = "returned"
    /\ fit_args.tol = Int2Q(0)
    /\ fit_args.revised_ratio = Q(9, 10)
    /\ fit_result[2] = at_call["arclength_parameters"]

\* C8: fit_bspline_curve never modifies the caller's arclength_parameters,
\* coords or initial_knots: after any number of loop bodies, and when the
\* call fails, each holds the values it held at call time.
C8_ArgumentsUnchanged ==
    \A o \in CallerObjects : heap[o] = at_call[o]

C8_Witness ==
    /\ fit_pc \in {"returned", "raised"}
    /\ fit_iter >= 2
    /\ CurrentParameters # at_call["arclength_parameters"]
    /\ heap[knots] # at_call["initial_knots"]

\* C9: in every loop body, with a the last arclength parameter before it and
\* L the integrated arclength of the spline fitted in it, every arclength
\* parameter is multiplied by ((L - a)*revised_ratio + a)/a, the new last
\* value is a + revised_ratio*(L - a), and the loop stops after that body
\* exactly when |1 - L/a| <= tol.
C9_DampedRescaling ==
    fit_iter >= 1 =>
        LET a      == Last(prev_parameters)
            L      == arclength
            rr     == fit_args.revised_ratio
            factor == Div(Add(Mul(Sub(L, a), rr), a), a)
        IN  /\ arclength_old = a
            /\ Len(CurrentParameters) = Len(prev_parameters)
            /\ \A i \in 1..Len(prev_parameters) :
                   CurrentParameters[i] = Mul(factor, prev_parameters[i])
            /\ Last(CurrentParameters) = Add(a, Mul(rr, Sub(L, a)))
            /\ fit_pc \in {"body", "return", "returned"} =>
                   (fit_pc # "body" <=> Converged)

C9_Witness ==
    /\ fit_iter >= 2
    /\ fit_pc = "return"
    /\ fit_args.revised_ratio = Q(9, 10)
    /\ arclength # arclength_old
    /\ Last(CurrentParameters) # Last(prev_parameters)

\* C10: whenever fit_bspline_curve returns, the returned spline is the one
\* fitted on the returned arclength parameters: its abscissae are the
\* returned parameters and its knots span their [first, last] range.
C10_SplineOnReturnedParameters ==
    fit_pc = "returned" =>
        /\ fit_result[1].x = fit_result[2]
        /\ fit_result[1].t[1] = fit_result[2][1]
        /\ Last(fit_result[1].t) = Last(fit_result[2])

-----------------------------------------------------------------------------
(* Properties of _read_mv3d_as_growth_trajectory *)

\* the chord-length cumulative arclength a of the points read
ChordArclength == np_cumsum(ChordLengths(Coords(rd_args.rows)))

DirectionReversed == rd_args.adjust_direction_flag /\ Lt(rd_e, Int2Q(0))

\* C7: when adjust_direction_flag is true and the estimated E is negative,
\* coords and thicknesses are returned in reverse order with arclength
\* a[n-1] - a[n-1-i] at index i; otherwise all three are returned in input
\* order.  In both cases the returned arclength starts at 0 and is
\* non-decreasing, and after a reversal the slope of thickness against the
\* returned arclength is >= 0.
C7_DirectionAdjusted ==
    rd_pc = "returned" =>
        LET n == Len(rd_args.rows)
            a == ChordArclength
        IN  /\ \A j \in 1..3 : Len(rd_result[j]) = n
            /\ IF DirectionReversed
               THEN \A i \in 1..n :
                       /\ rd_result[1][i] = Coords(rd_args.rows)[n + 1 - i]
                       /\ rd_result[2][i] = rd_args.rows[n + 1 - i].d
                       /\ rd_result[3][i] = a[n] - a[n + 1 - i]
               ELSE /\ rd_result[1] = Coords(rd_args.rows)
                    /\ rd_result[2] = Thicknesses(rd_args.rows)
                    /\ rd_result[3] = a
            /\ rd_result[3][1] = 0
            /\ \A i \in 1..(n - 1) : rd_result[3][i] <= rd_result[3][i + 1]
            /\ DirectionReversed => Covariance(rd_result[3], rd_result[2]) >= 0

C7_Witness ==
    /\ rd_pc = "returned"
    /\ DirectionReversed
    /\ Len(rd_args.rows) = 3
    /\ rd_result[3] = <<0, 4, 7>>
    /\ rd_result[2] = <<1, 2, 3>>
    /\ Covariance(rd_result[3], rd_result[2]) > 0

=============================================================================
